---- MODULE Spec2Model ----
(***************************************************************************)
(* The tool-calling orchestration engine of agentic-garden.                *)
(*                                                                         *)
(*   Spec      the LangGraph agent of clients/cli_agent (run.py, agent.py, *)
(*             mcp_client.py): user input, the llm node, the tools node.   *)
(*   SpecChat  the chat loop of clean-mcp/mcp-client.py.                   *)
(*   SpecDisc  construction of the MCP clients and of the tool registry    *)
(*             (mcp_client.py, tool_executor.py): HTTP tool discovery.     *)
(*   SpecLong  the agent in a conversation of more than twenty messages.   *)
(*   SpecProc  the client programs of clean-mcp (mcp-client.py main,       *)
(*             bridge_runner.py), the server subprocess and their channel. *)
(*   SpecReg   the registry of an executor with several tool clients       *)
(*             (tool_executor.py).                                         *)
(*   SpecLoop  the agent with a model that keeps asking for tools, up to   *)
(*             the graph's limit of steps per invocation.                  *)
(*   SpecSrv   the server of clean-mcp (server.py) reading its input       *)
(*             lines on its own.                                           *)
(***************************************************************************)
EXTENDS Integers, Sequences, FiniteSets, TLC

VARIABLES
    messages,         \* run.py: the history kept between invocations
    state,            \* agent.py: AgentState['messages'] during agent_app.invoke
    pc,               \* run.py / graph position
    calculator_tools, \* calculator_client.tools (names discovered at construction)
    inference_tools,  \* inference_client.tools
    response,         \* call_inference_model: the value returned by inference_client.call_tool
    request,          \* call_inference_model: the kwargs built for the model endpoint
    post,             \* the POST made to the tool endpoint by the last call_tool step
    offered,          \* names of the tool specs attached to model requests so far
    posted,           \* names of the tools POSTed to the calculator endpoint so far
    exc,              \* the exception that escaped, and the node it escaped from
    uuid_n,           \* number of uuid4() ids drawn
    conversation,     \* mcp-client.py chat_loop: conversation
    chat_pc,          \* mcp-client.py chat_loop position
    available_tools,  \* mcp-client.py: self.available_tools (names)
    chat_event,       \* mcp-client.py chat_loop: what the last step did
    chat_turns,       \* number of user turns of the chat loop so far
    request_id,       \* mcp-client.py: self.request_id
    endpoint_doc,        \* what each endpoint serves at /openapi.json
    mcp_tools,        \* mcp_client.py: self.tools of each client
    mcp_tool_schemas, \* mcp_client.py: self.tool_schemas of each client
    fetches,             \* GETs made by the current (or last) run of _discover_tools
    runs,                \* runs of _discover_tools started on each client
    replies,             \* responses with a 2xx status each client has received
    last_fetch,          \* what the last GET of each client produced
    disc_pc,             \* position in ToolExecutor.__init__
    current,             \* the client whose _discover_tools is running
    tools_map,           \* tool_executor.py: self.tools_map
    disc_exc,            \* the exception that escaped construction
    env,                 \* clean-mcp: the program run, LLM_TYPE, the backend, the peer
    run_pc,              \* position in main / run_bridge
    server_process,      \* mcp-client.py: self.server_process and the state of the process
    signaled,            \* terminate() has sent the termination signal
    awaited,             \* wait() has returned
    wire,                \* the request lines written to the server's stdin so far
    stdin_pipe,          \* request lines the server has not read yet
    stdout_pipe,         \* reply lines the client has not read yet
    awaiting,            \* id of the request whose reply line send_request waits for
    replies_read,        \* the reply lines read, each with the request waited for
    exit_path,           \* how the try block of main was left
    registry,            \* tool_executor.py: self.tool_clients, in insertion order
    offers,              \* the tool names of each registered client (client.tools)
    unified,             \* tool_executor.py: self.tools_map of that executor
    lookup,              \* the last name resolved and the client it resolved to
    llm_tools            \* the list get_tools_for_llm returned last

agent_vars == <<messages, state, pc, calculator_tools, inference_tools, response,
                request, post, offered, posted, exc, uuid_n>>
chat_vars == <<conversation, chat_pc, available_tools, chat_event, chat_turns, request_id>>
disc_vars == <<endpoint_doc, mcp_tools, mcp_tool_schemas, fetches, runs, replies,
               last_fetch, disc_pc, current, tools_map, disc_exc>>
proc_vars == <<env, run_pc, server_process, signaled, awaited, wire, stdin_pipe, stdout_pipe,
               awaiting, replies_read, exit_path>>
reg_vars == <<registry, offers, unified, lookup, llm_tools>>
vars == <<agent_vars, chat_vars, disc_vars, proc_vars, reg_vars>>

(***************************************************************************)
(* Bounds of the model.                                                    *)
(***************************************************************************)
MaxMsgs == 6
MaxChatTurns == 11
MaxRuns == 2
MaxHistory == 22
MaxRequests == 4
MaxClients == 3
MaxLoop == 27
MaxLines == 3

Last(s) == s[Len(s)]
IsPrefix(s, t) == Len(s) <= Len(t) /\ SubSeq(t, 1, Len(s)) = s

(***************************************************************************)
(* JSON values carried as tool arguments.                                  *)
(***************************************************************************)
Num(n) == [t |-> "num", n |-> n, s |-> ""]
Str(s) == [t |-> "str", n |-> 0, s |-> s]
Null == [t |-> "null", n |-> 0, s |-> ""]
Absent == [t |-> "absent", n |-> 0, s |-> ""]

\* an arguments value: a mapping with (possibly absent) keys a, b, c, or a
\* JSON value that is no mapping
Dict(a, b, c) == [shape |-> "dict", a |-> a, b |-> b, c |-> c]
ListArgs == [shape |-> "list", a |-> Absent, b |-> Absent, c |-> Absent]

\* the strings float() accepts, with their values
NumericStrings == [s \in {"3", "5"} |-> IF s = "3" THEN 3 ELSE 5]

\* a coercion that turns what it cannot read into 0 instead of raising
float_or_zero(v) ==
    CASE v.t = "num" -> [ok |-> TRUE, n |-> v.n, raises |-> "none"]
      [] v.t = "str" /\ v.s \in DOMAIN NumericStrings ->
             [ok |-> TRUE, n |-> NumericStrings[v.s], raises |-> "none"]
      [] OTHER -> [ok |-> TRUE, n |-> 0, raises |-> "none"]

\* float(v): the number, or the exception float raises
float(v) ==
    CASE v.t = "num" -> [ok |-> TRUE, n |-> v.n, raises |-> "none"]
      [] v.t = "str" /\ v.s \in DOMAIN NumericStrings ->
             [ok |-> TRUE, n |-> NumericStrings[v.s], raises |-> "none"]
      [] v.t = "str" -> [ok |-> FALSE, n |-> 0, raises |-> "ValueError"]
      [] OTHER -> [ok |-> FALSE, n |-> 0, raises |-> "TypeError"]

\* tool_args.get(key, 0)
dict_get(args, key) == IF args[key].t = "absent" THEN Num(0) ELSE args[key]

(***************************************************************************)
(* Tool-call ids.                                                          *)
(***************************************************************************)
ModelId(n) == [src |-> "model", n |-> n]
Uuid(n) == [src |-> "uuid", n |-> n]
NoId == [src |-> "none", n |-> 0]

ToolCall(name, args, id) == [name |-> name, args |-> args, id |-> id]

(***************************************************************************)
(* Message contents.                                                       *)
(***************************************************************************)
Text(s) == [k |-> "text", s |-> s]
Empty == [k |-> "text", s |-> ""]
NoneContent == [k |-> "none"]
ErrorText == Text("I'm sorry, I encountered an error. Please check the logs.")
\* a content that is the text of a JSON object {"name": .., "parameters": ..},
\* followed by `tail`
JsonCall(name, pk, args, tail) ==
    [k |-> "json", obj |-> TRUE, has_name |-> TRUE, name |-> name,
     pk |-> pk, args |-> args, tail |-> tail]
\* a content that is the text of a JSON value that is no object with both keys
JsonObjNoParams(name) ==
    [k |-> "json", obj |-> TRUE, has_name |-> TRUE, name |-> name,
     pk |-> "absent", args |-> ListArgs, tail |-> ""]
JsonScalar ==
    [k |-> "json", obj |-> FALSE, has_name |-> FALSE, name |-> "",
     pk |-> "absent", args |-> ListArgs, tail |-> ""]

\* the texts of the tool results
ValueText(tool, v) == [k |-> "value", tool |-> tool, val |-> v]
\* "Error: Invalid parameters for tool '<tool>'. Parameters must be numbers.":
\* the tool is named, no parameter is (params: the parameter names in the text)
InvalidParamsText(tool) ==
    [k |-> "invalid_parameters", tool |-> tool, val |-> 0, params |-> {}]
NotFoundText(tool) == [k |-> "not_found", tool |-> tool, val |-> 0]
NotOnServerText(tool) == [k |-> "not_found_on_server", tool |-> tool, val |-> 0]
\* "Error calling tool '<tool>': <e>"
CallErrorText(tool, e) == [k |-> "error_calling_tool", tool |-> tool, val |-> 0, e |-> e]
\* the text of the JSON body of a response with the given status
ResponseBodyText(tool, status) == [k |-> "response_body", tool |-> tool, val |-> status]

(***************************************************************************)
(* Messages (langchain_core.messages as agent.py uses them).               *)
(***************************************************************************)
HumanMessage(content) ==
    [type |-> "human", content |-> content, tool_calls |-> <<>>, tool_call_id |-> NoId]
AIMessage(content, tool_calls) ==
    [type |-> "ai", content |-> content, tool_calls |-> tool_calls, tool_call_id |-> NoId]
ToolMessage(content, tool_call_id) ==
    [type |-> "tool", content |-> content, tool_calls |-> <<>>, tool_call_id |-> tool_call_id]

\* agent.py: the tool specs offered to the model
tools == <<[name |-> "add", properties |-> {"a", "b"}, required |-> {"a", "b"}],
           [name |-> "subtract", properties |-> {"a", "b"}, required |-> {"a", "b"}]>>
ToolSpecNames(ts) == {ts[i].name : i \in 1..Len(ts)}

\* json.dumps(v): a string whose parse is v
json_dumps(v) == [json |-> v]

map_message_to_api(m) ==
    LET role == CASE m.type = "human" -> "user"
                  [] m.type = "ai" -> "assistant"
                  [] m.type = "tool" -> "tool"
                  [] OTHER -> "user"
    IN  CASE m.type = "ai" ->
               [role |-> role,
                content |-> IF m.content = Empty THEN NoneContent ELSE m.content,
                tool_calls |-> [i \in 1..Len(m.tool_calls) |->
                                  [id |-> m.tool_calls[i].id, type |-> "function",
                                   name |-> m.tool_calls[i].name,
                                   arguments |-> json_dumps(m.tool_calls[i].args)]]]
          [] m.type = "tool" ->
               [role |-> role, content |-> m.content, tool_call_id |-> m.tool_call_id]
          [] OTHER -> [role |-> role, content |-> m.content]

(***************************************************************************)
(* mcp_client.py: MCPClient.call_tool.  `reply` is what the network        *)
(* produced for the POST: the JSON body of a 200 response, a response with  *)
(* another status, or a RequestException raised by requests.post.          *)
(***************************************************************************)
RequestException == [k |-> "RequestException", e |-> "ConnectionError"]
HttpResponse(status, body) == [k |-> "response", status |-> status, body |-> body]
StrResult(text) == [k |-> "str", text |-> text]

\* response.raise_for_status(): HTTPError for a 4xx or 5xx status
raise_for_status(status) == 400 <= status /\ status < 600

\* a call that posts whether or not discovery has found the tool
MCPClient_call_tool_undiscovered(client_tools, tool_name, reply) ==
    IF reply.k = "RequestException"
    THEN [sent |-> TRUE, result |-> StrResult(CallErrorText(tool_name, reply.e))]
    ELSE IF reply.k = "response"
         THEN IF raise_for_status(reply.status)
              THEN [sent |-> TRUE, result |-> StrResult(CallErrorText(tool_name, "HTTPError"))]
              ELSE [sent |-> TRUE, result |-> reply.body]
    ELSE [sent |-> TRUE, result |-> reply]

MCPClient_call_tool(client_tools, tool_name, reply) ==
    IF tool_name \notin client_tools
    THEN [sent |-> FALSE, result |-> StrResult(NotOnServerText(tool_name))]
    ELSE IF reply.k = "RequestException"
         THEN [sent |-> TRUE, result |-> StrResult(CallErrorText(tool_name, reply.e))]
    ELSE IF reply.k = "response"
         THEN IF raise_for_status(reply.status)
              THEN [sent |-> TRUE, result |-> StrResult(CallErrorText(tool_name, "HTTPError"))]
              ELSE [sent |-> TRUE, result |-> reply.body]
    ELSE [sent |-> TRUE, result |-> reply]

(***************************************************************************)
(* The replies of the model endpoint.                                      *)
(***************************************************************************)
\* {"choices": [{"message": {"content": c, "tool_calls": tcs}}]}
OkReply(c, tcs) == [k |-> "ok", content |-> c, tool_calls |-> tcs]
\* a JSON value that is no object (a list)
NotADictReply == [k |-> "not_a_dict"]
\* an object without "choices", or whose first choice has no "message"
NoMessageReply == [k |-> "no_message"]
\* {"choices": []}
EmptyChoicesReply == [k |-> "empty_choices"]

(***************************************************************************)
(* agent.py: call_inference_model                                          *)
(***************************************************************************)
\* the decision taken on the whole history instead of its last message
should_send_tools_whole_history(msgs) ==
    \A i \in 1..Len(msgs) : msgs[i].type # "tool"

should_send_tools(msgs) == Last(msgs).type # "tool"

\* a request that leaves the tool-results out of the message list
build_kwargs_without_tool_results(msgs) ==
    LET kept == SelectSeq(msgs, LAMBDA m : m.type # "tool")
    IN  [messages |-> [i \in 1..Len(kept) |-> map_message_to_api(kept[i])],
         temperature |-> 0,
         tools |-> IF should_send_tools(msgs) THEN tools ELSE <<>>,
         tool_choice |-> IF should_send_tools(msgs) THEN "auto" ELSE "absent"]

build_kwargs(msgs) ==
    [messages |-> [i \in 1..Len(msgs) |-> map_message_to_api(msgs[i])],
     temperature |-> 0,
     tools |-> IF should_send_tools(msgs) THEN tools ELSE <<>>,
     tool_choice |-> IF should_send_tools(msgs) THEN "auto" ELSE "absent"]

\* json.loads(content): fails on a text that is not JSON and on trailing data
json_loads_ok(c) == c.k = "json" /\ c.tail = ""

\* detection that takes a parameters string it cannot parse as the arguments
embedded_tool_calls_raw_params(c, id) ==
    IF ~json_loads_ok(c) THEN <<>>
    ELSE IF ~c.obj THEN <<>>
    ELSE IF ~(c.has_name /\ c.pk # "absent") THEN <<>>
    ELSE <<ToolCall(c.name, c.args, id)>>

\* agent.py 112-133: the tool call embedded in the content, <<>> when there is
\* none (every failure is swallowed by the except clause)
embedded_tool_calls(c, id) ==
    IF ~json_loads_ok(c) THEN <<>>                       \* JSONDecodeError
    ELSE IF ~c.obj THEN <<>>                             \* "name" in 42: TypeError
    ELSE IF ~(c.has_name /\ c.pk # "absent") THEN <<>>
    ELSE IF c.pk = "badstr" THEN <<>>                    \* json.loads(params) fails
    ELSE <<ToolCall(c.name, c.args, id)>>

NonDictArgs(tcs) == \E i \in 1..Len(tcs) : tcs[i].args.shape # "dict"

\* agent.py 97-133: the message built from the response, or the exception
\* raised.  `strict` is whether the message class rejects a tool call whose
\* args are no mapping (the class is third-party: both outcomes are kept).
Raised(e) == [raises |-> e, msg |-> AIMessage(Empty, <<>>), uuid |-> FALSE]
Built(m, u) == [raises |-> "none", msg |-> m, uuid |-> u]

\* detection that tries the content first
detect_embedded_first(resp, id) ==
    LET tcs == embedded_tool_calls(resp.content, id)
    IN  IF tcs # <<>> THEN tcs ELSE resp.tool_calls

\* agent.py 105-131: the structured tool calls if there are any, else the
\* call embedded in the content
detect_tool_calls(resp, id) ==
    IF resp.tool_calls # <<>> THEN resp.tool_calls
    ELSE embedded_tool_calls(resp.content, id)

build_ai_message(resp, id, strict) ==
    CASE resp.k = "str" -> Built(AIMessage(ErrorText, <<>>), FALSE)
      [] resp.k = "not_a_dict" -> Raised("AttributeError")
      [] resp.k = "empty_choices" -> Raised("IndexError")
      [] resp.k = "no_message" -> Raised("TypeError")
      [] OTHER ->
           LET tcs == detect_tool_calls(resp, id)
           IN  IF tcs = <<>>
               THEN Built(AIMessage(resp.content, <<>>), FALSE)
               ELSE IF strict /\ NonDictArgs(tcs)
                    THEN Raised("ValidationError")
                    ELSE Built(AIMessage(Empty, tcs), tcs # resp.tool_calls)

\* should_continue without the test for tool calls
should_continue_any_ai(msgs) ==
    IF Last(msgs).type = "ai" THEN "tools" ELSE "end"

\* agent.py 170-174
should_continue(msgs) ==
    IF Last(msgs).type = "ai" /\ Last(msgs).tool_calls # <<>> THEN "tools" ELSE "end"

(***************************************************************************)
(* services/calculator_server: the value the tool computes.                *)
(***************************************************************************)
calculator_server(tool_name, payload) ==
    CASE tool_name = "add" -> payload.a.n + payload.b.n
      [] tool_name = "subtract" -> payload.a.n - payload.b.n
      [] OTHER -> 0

(***************************************************************************)
(* agent.py: call_tool, lines 143-163: the result for the first tool call, *)
(* the POST it made, or the exception that escapes.  `net` is what the     *)
(* network does with a POST: a response with a status, or no response.     *)
(***************************************************************************)
Status(n) == [k |-> "status", status |-> n]
ConnectionError == [k |-> "ConnectionError", status |-> 0]
NoNet == [k |-> "none", status |-> 0]
NetOutcomes == {Status(200), Status(300), Status(500), ConnectionError}

NoPost == [sent |-> FALSE, name |-> "", payload |-> ListArgs, net |-> NoNet]
Post(name, payload, net) == [sent |-> TRUE, name |-> name, payload |-> payload, net |-> net]

ToolRaised(e) == [raises |-> e, post |-> NoPost, result |-> Empty]
ToolDone(p, r) == [raises |-> "none", post |-> p, result |-> r]

\* calculator_client.call_tool(tool_name, **payload) followed by str(result)
calculator_call(calc_tools, tool_name, payload, net) ==
    LET reply == CASE net.k = "ConnectionError" -> RequestException
                   [] net.status = 200 ->
                        [k |-> "json", val |-> calculator_server(tool_name, payload)]
                   [] OTHER ->
                        HttpResponse(net.status, [k |-> "body", status |-> net.status])
        r == MCPClient_call_tool(calc_tools, tool_name, reply)
    IN  ToolDone(IF r.sent THEN Post(tool_name, payload, net) ELSE NoPost,
                 CASE r.result.k = "str" -> r.result.text
                   [] r.result.k = "body" -> ResponseBodyText(tool_name, r.result.status)
                   [] OTHER -> ValueText(tool_name, r.result.val))

run_tool(tool_call, calc_tools, net) ==
    LET tool_name == tool_call.name
        tool_args == tool_call.args
    IN  IF tool_name \in {"add", "subtract"}
        THEN IF tool_args.shape # "dict"
             THEN ToolRaised("AttributeError")          \* no .get on a list
             ELSE LET a == float(dict_get(tool_args, "a"))
                      b == float(dict_get(tool_args, "b"))
                  IN  IF ~a.ok \/ ~b.ok                   \* ValueError, TypeError
                      THEN ToolDone(NoPost, InvalidParamsText(tool_name))
                      ELSE calculator_call(calc_tools, tool_name,
                                           Dict(Num(a.n), Num(b.n), Absent), net)
        ELSE IF tool_name \in calc_tools
             THEN IF tool_args.shape # "dict"
                  THEN ToolRaised("TypeError")           \* ** on a non-mapping
                  ELSE calculator_call(calc_tools, tool_name, tool_args, net)
             ELSE ToolDone(NoPost, NotFoundText(tool_name))

\* the call taken from the other end of the list
last_tool_call(last_message) == last_message.tool_calls[Len(last_message.tool_calls)]

\* agent.py 143: the tool call the node works on
first_tool_call(last_message) == last_message.tool_calls[1]

\* a tool message that carries an id of its own
tool_message_own_id(tool_call, result) == ToolMessage(result, Uuid(0))

\* agent.py 165: the message that answers tool_call
tool_message(tool_call, result) == ToolMessage(result, tool_call.id)

(***************************************************************************)
(* The inputs of the agent.                                                *)
(***************************************************************************)
GoodArgs == Dict(Num(1), Num(2), Absent)
ArgsSet ==
    { GoodArgs,
      Dict(Str("3"), Num(2), Absent),      \* a numeric string
      Dict(Str("x"), Num(2), Absent),      \* a is no number
      Dict(Num(1), Null, Absent),          \* b is null
      Dict(Num(1), Absent, Absent),        \* b is missing
      Dict(Num(1), Num(2), Num(7)),        \* an undeclared parameter c
      ListArgs }                           \* no mapping at all

StructuredCalls ==
    {ToolCall("add", a, ModelId(1)) : a \in ArgsSet}
    \cup {ToolCall("multiply", a, ModelId(1)) :
             a \in {GoodArgs, Dict(Str("x"), Num(2), Absent), ListArgs}}
    \cup {ToolCall("divide", a, ModelId(1)) : a \in {GoodArgs, ListArgs}}
    \cup {ToolCall("add", GoodArgs, NoId)}

EmbeddedContent == JsonCall("subtract", "value", Dict(Num(5), Num(2), Absent), "")

Contents ==
    { Text("The answer is 3."),
      EmbeddedContent,
      JsonCall("subtract", "value", Dict(Num(5), Num(2), Absent), " ;some trailing note"),
      JsonCall("subtract", "str", Dict(Num(5), Num(2), Absent), ""),
      JsonCall("subtract", "badstr", ListArgs, ""),
      JsonCall("divide", "value", ListArgs, ""),
      JsonObjNoParams("subtract"),
      JsonScalar }

ModelReplies ==
    {OkReply(c, <<>>) : c \in Contents}
    \cup {OkReply(Empty, <<tc>>) : tc \in StructuredCalls}
    \cup {OkReply(EmbeddedContent, <<ToolCall("add", GoodArgs, ModelId(1))>>),
          OkReply(Empty, <<ToolCall("add", GoodArgs, ModelId(1)),
                           ToolCall("divide", GoodArgs, ModelId(2))>>)}
    \cup {NotADictReply, NoMessageReply, EmptyChoicesReply, RequestException}

Questions == {Text("What is 1 + 2?")}

Registries == {{}, {"add", "subtract", "multiply"}}

(***************************************************************************)
(* The agent: run.py main and the graph of agent.py.                       *)
(***************************************************************************)
NoExc == [node |-> "none", type |-> "none"]
NoResponse == [k |-> "none"]
NoRequest == [sent |-> FALSE, kwargs |-> [messages |-> <<>>, temperature |-> 0,
                                          tools |-> <<>>, tool_choice |-> "absent"]]

AgentInit ==
    /\ messages = <<>>
    /\ state = <<>>
    /\ pc = "input"
    /\ calculator_tools \in Registries
    /\ inference_tools \in {{"create_chat_completion"}, {}}
    /\ response = NoResponse
    /\ request = NoRequest
    /\ post = NoPost
    /\ offered = {}
    /\ posted = {}
    /\ exc = NoExc
    /\ uuid_n = 0

\* run.py 13-22: a question is read, appended and the graph is invoked
UserInputWithin(question, bound) ==
    /\ pc = "input"
    /\ Len(messages) + 1 < bound
    /\ messages' = Append(messages, HumanMessage(question))
    /\ state' = messages'
    /\ pc' = "llm"
    /\ UNCHANGED <<calculator_tools, inference_tools, response, request, post,
                   offered, posted, exc, uuid_n>>
    /\ UNCHANGED chat_vars
    /\ UNCHANGED disc_vars
    /\ UNCHANGED proc_vars
    /\ UNCHANGED reg_vars

UserInput(question) == UserInputWithin(question, MaxMsgs)

\* run.py 14-15: 'exit'
Exit ==
    /\ pc = "input"
    /\ pc' = "exited"
    /\ UNCHANGED <<messages, state, calculator_tools, inference_tools, response,
                   request, post, offered, posted, exc, uuid_n>>
    /\ UNCHANGED chat_vars
    /\ UNCHANGED disc_vars
    /\ UNCHANGED proc_vars
    /\ UNCHANGED reg_vars

\* the llm node and the conditional edge after it
call_inference_model_within(reply, strict, bound) ==
    /\ pc = "llm"
    /\ Len(state) < bound
    /\ LET kwargs == build_kwargs(state)
           r == MCPClient_call_tool(inference_tools, "create_chat_completion", reply)
           built == build_ai_message(r.result, Uuid(uuid_n + 1), strict)
       IN  /\ request' = [sent |-> r.sent, kwargs |-> kwargs]
           /\ response' = r.result
           /\ offered' = IF r.sent THEN offered \cup ToolSpecNames(kwargs.tools)
                         ELSE offered
           /\ IF built.raises # "none"
              THEN /\ pc' = "crashed"
                   /\ exc' = [node |-> "llm", type |-> built.raises]
                   /\ UNCHANGED <<state, uuid_n>>
              ELSE /\ state' = Append(state, built.msg)
                   /\ uuid_n' = IF built.uuid THEN uuid_n + 1 ELSE uuid_n
                   /\ pc' = should_continue(state')
                   /\ exc' = exc
    /\ UNCHANGED <<messages, calculator_tools, inference_tools, post, posted>>
    /\ UNCHANGED chat_vars
    /\ UNCHANGED disc_vars
    /\ UNCHANGED proc_vars
    /\ UNCHANGED reg_vars

call_inference_model(reply, strict) == call_inference_model_within(reply, strict, MaxMsgs)

\* the tools node and the edge back to llm
call_tool_within(net, strict, bound) ==
    /\ pc = "tools"
    /\ Len(state) < bound
    /\ LET last_message == Last(state)
       IN  IF last_message.type # "ai" \/ last_message.tool_calls = <<>>
           THEN /\ pc' = "llm"
                /\ UNCHANGED <<state, post, posted, exc>>
           ELSE LET tool_call == first_tool_call(last_message)
                    r == run_tool(tool_call, calculator_tools, net)
                IN  /\ post' = r.post
                    /\ posted' = IF r.post.sent THEN posted \cup {r.post.name}
                                 ELSE posted
                    /\ IF r.raises # "none"
                       THEN /\ pc' = "crashed"
                            /\ exc' = [node |-> "tools", type |-> r.raises]
                            /\ state' = state
                       ELSE IF strict /\ tool_call.id = NoId
                       THEN /\ pc' = "crashed"     \* ToolMessage(tool_call_id=None)
                            /\ exc' = [node |-> "tools", type |-> "ValidationError"]
                            /\ state' = state
                       ELSE /\ state' = Append(state, tool_message(tool_call, r.result))
                            /\ pc' = "llm"
                            /\ exc' = exc
    /\ UNCHANGED <<messages, calculator_tools, inference_tools, response, request,
                   offered, uuid_n>>
    /\ UNCHANGED chat_vars
    /\ UNCHANGED disc_vars
    /\ UNCHANGED proc_vars
    /\ UNCHANGED reg_vars

call_tool(net, strict) == call_tool_within(net, strict, MaxMsgs)

\* run.py 24-36: the graph returned; the history is replaced by the returned one
ReturnToUser ==
    /\ pc = "end"
    /\ messages' = IF Last(state).type = "ai" THEN state ELSE messages
    /\ pc' = "input"
    /\ UNCHANGED <<state, calculator_tools, inference_tools, response, request,
                   post, offered, posted, exc, uuid_n>>
    /\ UNCHANGED chat_vars
    /\ UNCHANGED disc_vars
    /\ UNCHANGED proc_vars
    /\ UNCHANGED reg_vars

\* what the last step of the chat loop did: the tools/call requests it sent,
\* the tool names the model reply mentioned, the answer to the prompt
ChatEvent(step, truncated, rpc, mentions, answer) ==
    [step |-> step, truncated |-> truncated, rpc |-> rpc, mentions |-> mentions,
     answer |-> answer]
NoChatEvent == ChatEvent("none", FALSE, {}, {}, "none")

\* the chat loop of mcp-client.py is not running
ChatIdle ==
    /\ conversation = <<>>
    /\ chat_pc = "idle"
    /\ available_tools = {}
    /\ chat_event = NoChatEvent
    /\ chat_turns = 0
    /\ request_id = 0

\* no client is being constructed
DiscIdle ==
    /\ endpoint_doc = <<>>
    /\ mcp_tools = <<>>
    /\ mcp_tool_schemas = <<>>
    /\ fetches = <<>>
    /\ runs = <<>>
    /\ replies = <<>>
    /\ last_fetch = <<>>
    /\ disc_pc = "idle"
    /\ current = "none"
    /\ tools_map = <<>>
    /\ disc_exc = "none"

\* no registry of several tool clients is under construction
NoLookup == [name |-> "", client |-> "none"]
NoList == [built |-> FALSE, names |-> <<>>]
RegIdle ==
    /\ registry = <<>>
    /\ offers = <<>>
    /\ unified = <<>>
    /\ lookup = NoLookup
    /\ llm_tools = NoList

\* no client program is running
ProcIdle ==
    /\ env = <<>>
    /\ run_pc = "idle"
    /\ server_process = "none"
    /\ signaled = FALSE
    /\ awaited = FALSE
    /\ wire = <<>>
    /\ stdin_pipe = <<>>
    /\ stdout_pipe = <<>>
    /\ awaiting = 0
    /\ replies_read = <<>>
    /\ exit_path = "none"

Init == AgentInit /\ ChatIdle /\ DiscIdle /\ ProcIdle /\ RegIdle

Next ==
    \/ \E q \in Questions : UserInput(q)
    \/ Exit
    \/ \E reply \in ModelReplies, strict \in BOOLEAN : call_inference_model(reply, strict)
    \/ \E net \in NetOutcomes, strict \in BOOLEAN : call_tool(net, strict)
    \/ ReturnToUser

Spec == Init /\ [][Next]_vars

(***************************************************************************)
(* The agent in a long conversation: the model answers every question in   *)
(* plain text, or the request to it fails.                                 *)
(***************************************************************************)
PlainReplies == {OkReply(Text("The answer is 3."), <<>>), RequestException}

LongUserInput(question) == UserInputWithin(question, MaxHistory)
LongModelTurn(reply, strict) == call_inference_model_within(reply, strict, MaxHistory)

NextLong ==
    \/ \E q \in Questions : LongUserInput(q)
    \/ Exit
    \/ \E reply \in PlainReplies, strict \in BOOLEAN : LongModelTurn(reply, strict)
    \/ ReturnToUser

SpecLong == Init /\ [][NextLong]_vars

(***************************************************************************)
(* The agent in a turn of many tool round-trips: the model asks for the    *)
(* same tool again and again, or answers in plain text.                    *)
(***************************************************************************)
\* agent.py 187, run.py 22: neither compile() nor invoke() sets a recursion
\* limit, so the graph runs with the default of the graph library: at most
\* 25 node executions in one invocation
recursion_limit == 25

\* the node executions of the running invocation: every node appends one
\* message to the history the invocation started with
supersteps == Len(state) - Len(messages)

LoopReplies ==
    {OkReply(Text(""), <<ToolCall("add", GoodArgs, ModelId(1))>>),
     OkReply(Text("The answer is 3."), <<>>)}

LoopUserInput(question) == UserInputWithin(question, MaxLoop)
LoopModelTurn(reply, strict) ==
    /\ supersteps < recursion_limit
    /\ call_inference_model_within(reply, strict, MaxLoop)
LoopToolTurn(net, strict) ==
    /\ supersteps < recursion_limit
    /\ call_tool_within(net, strict, MaxLoop)

\* run.py 22: the limit is reached before the graph has ended; invoke raises
\* GraphRecursionError, which run.py does not catch
recursion_limit_reached ==
    /\ pc \in {"llm", "tools"}
    /\ supersteps >= recursion_limit
    /\ pc' = "crashed"
    /\ exc' = [node |-> "graph", type |-> "GraphRecursionError"]
    /\ UNCHANGED <<messages, state, calculator_tools, inference_tools, response,
                   request, post, offered, posted, uuid_n>>
    /\ UNCHANGED chat_vars
    /\ UNCHANGED disc_vars
    /\ UNCHANGED proc_vars
    /\ UNCHANGED reg_vars

NextLoop ==
    \/ \E q \in Questions : LoopUserInput(q)
    \/ Exit
    \/ \E reply \in LoopReplies, strict \in BOOLEAN : LoopModelTurn(reply, strict)
    \/ \E strict \in BOOLEAN : LoopToolTurn(Status(200), strict)
    \/ recursion_limit_reached
    \/ ReturnToUser

SpecLoop == Init /\ [][NextLoop]_vars

(***************************************************************************)
(* clean-mcp/mcp-client.py: the chat loop.                                 *)
(***************************************************************************)
CEILING == 20
FLOOR == 10

\* server.py: the tools the server lists
ServerTools == {"get_time", "execute_command", "list_files"}

\* a text, with the tool names that occur in it
Said(s, names) == [k |-> "text", s |-> s, mentions |-> names]
\* the system message: the tool-list preamble, `n` times, before the rest
SystemMessage(n) == [role |-> "system", content |-> [k |-> "system", preambles |-> n]]
UserMessage(c) == [role |-> "user", content |-> c]
AssistantMessage(c) == [role |-> "assistant", content |-> c]

\* call_llm 105-116: what call_llm does to the list it is given
call_llm_messages(msgs, avail) ==
    IF avail # {}
    THEN IF msgs # <<>> /\ msgs[1].role = "system"
         THEN [msgs EXCEPT ![1].content.preambles = @ + 1]
         ELSE <<SystemMessage(1)>> \o msgs
    ELSE msgs

\* a cut that keeps the oldest messages instead of the most recent ones
keep_manageable_head(conv) ==
    IF Len(conv) > CEILING THEN SubSeq(conv, 1, FLOOR) ELSE conv

\* chat_loop 263-265
keep_manageable(conv) ==
    IF Len(conv) > CEILING THEN SubSeq(conv, Len(conv) - FLOOR + 1, Len(conv)) ELSE conv

\* the state after main() has started the server and initialize() returned
ChatInit ==
    /\ conversation = <<>>
    /\ chat_pc = "prompt"
    /\ available_tools \in {{}, ServerTools}
    /\ chat_event = NoChatEvent
    /\ chat_turns = 0
    /\ request_id = 2

AgentIdle ==
    /\ messages = <<>>
    /\ state = <<>>
    /\ pc = "idle"
    /\ calculator_tools = {}
    /\ inference_tools = {}
    /\ response = NoResponse
    /\ request = NoRequest
    /\ post = NoPost
    /\ offered = {}
    /\ posted = {}
    /\ exc = NoExc
    /\ uuid_n = 0

\* chat_loop 230-231
ChatQuit ==
    /\ chat_pc = "prompt"
    /\ chat_pc' = "done"
    /\ chat_event' = ChatEvent("quit", FALSE, {}, {}, "none")
    /\ UNCHANGED <<conversation, available_tools, chat_turns, request_id>>
    /\ UNCHANGED agent_vars
    /\ UNCHANGED disc_vars
    /\ UNCHANGED proc_vars
    /\ UNCHANGED reg_vars

\* chat_loop 232-235
ChatListTools ==
    /\ chat_pc = "prompt"
    /\ chat_event' = ChatEvent("tools", FALSE, {}, {}, "none")
    /\ UNCHANGED <<conversation, chat_pc, available_tools, chat_turns, request_id>>
    /\ UNCHANGED agent_vars
    /\ UNCHANGED disc_vars
    /\ UNCHANGED proc_vars
    /\ UNCHANGED reg_vars

\* chat_loop 237-244: the user message is appended and call_llm builds the
\* request from the conversation list itself
ChatUserTurn(text) ==
    /\ chat_pc = "prompt"
    /\ chat_turns < MaxChatTurns
    /\ conversation' =
           call_llm_messages(Append(conversation, UserMessage(text)), available_tools)
    /\ chat_pc' = "llm"
    /\ chat_turns' = chat_turns + 1
    /\ chat_event' = ChatEvent("user", FALSE, {}, {}, "none")
    /\ UNCHANGED <<available_tools, request_id>>
    /\ UNCHANGED agent_vars
    /\ UNCHANGED disc_vars
    /\ UNCHANGED proc_vars
    /\ UNCHANGED reg_vars

\* tool execution that does not wait for the user's consent
tools_to_call_unprompted(mentions, avail, prompt) ==
    (mentions \cap avail) \cap {"get_time"}

\* chat_loop 249-257: the tools/call requests of a turn: the prompt is shown
\* when the reply mentions an available tool, and on 'y' get_time is called
\* when it is among the tools mentioned
tools_to_call(mentions, avail, prompt) ==
    IF mentions \cap avail # {} /\ prompt = "y"
    THEN (mentions \cap avail) \cap {"get_time"}
    ELSE {}

\* chat_loop 246-265: the model answered with `reply` (or the HTTP call
\* raised); `prompt` is the answer to "Execute suggested tools?", `line` what
\* send_request reads from the server for a tools/call
ChatReply(reply, prompt, line) ==
    /\ chat_pc = "llm"
    /\ IF reply.k = "exception"
       THEN /\ chat_pc' = "crashed"
            /\ chat_event' = ChatEvent("reply", FALSE, {}, {}, "none")
            /\ UNCHANGED <<conversation, request_id>>
       ELSE LET suggested == reply.mentions \cap available_tools
                answer == IF suggested # {} THEN prompt ELSE "none"
                called == tools_to_call(reply.mentions, available_tools, prompt)
                appended == Append(conversation, AssistantMessage(reply))
            IN  /\ request_id' = request_id + Cardinality(called)
                /\ IF called # {} /\ line # "json"
                   THEN /\ chat_pc' = "crashed"       \* json.loads raises
                        /\ chat_event' = ChatEvent("reply", FALSE, called,
                                                   reply.mentions, answer)
                        /\ conversation' = conversation
                   ELSE /\ conversation' = keep_manageable(appended)
                        /\ chat_pc' = "prompt"
                        /\ chat_event' = ChatEvent("reply", Len(appended) > CEILING,
                                                   called, reply.mentions, answer)
    /\ UNCHANGED <<available_tools, chat_turns>>
    /\ UNCHANGED agent_vars
    /\ UNCHANGED disc_vars
    /\ UNCHANGED proc_vars
    /\ UNCHANGED reg_vars

ChatTexts == {Said("What time is it?", {})}
ChatReplies == {Said("Hello.", {}), Said("Use get_time for that.", {"get_time"}),
                [k |-> "exception"]}

InitChat == AgentIdle /\ ChatInit /\ DiscIdle /\ ProcIdle /\ RegIdle

NextChat ==
    \/ ChatQuit
    \/ ChatListTools
    \/ \E text \in ChatTexts : ChatUserTurn(text)
    \/ \E reply \in ChatReplies, prompt \in {"y", "n"},
          line \in {"json", "empty", "not_json"} : ChatReply(reply, prompt, line)

SpecChat == InitChat /\ [][NextChat]_vars

(***************************************************************************)
(* mcp_client.py, tool_executor.py: construction of the clients and of the *)
(* registry.                                                               *)
(***************************************************************************)
RETRIES == 5

\* tool_executor.py 15-22: the clients, in the order of their construction,
\* and those of self.tool_clients
ClientOrder == <<"inference_client", "calculator_client">>
Clients == {ClientOrder[i] : i \in 1..Len(ClientOrder)}
tool_clients == <<"calculator_client">>

\* the POST entry of a route: its summary, its description and the name of
\* the schema its request body refers to ("" where there is none)
PostMethod(summary, description, ref) ==
    [declared |-> TRUE, summary |-> summary, description |-> description, ref |-> ref]
\* methods.get("post", {}) of a route without POST entry
NoPostMethod == [declared |-> FALSE, summary |-> "", description |-> "", ref |-> ""]

\* a route of the schema document: whether its path starts with "/tools/",
\* the last segment of its path, and its POST entry
Route(tools_prefix, name, post_method) ==
    [tools_prefix |-> tools_prefix, name |-> name, post |-> post_method]

\* a schema document: its routes in document order and the names under
\* components/schemas
Document(paths, components) == [k |-> "object", paths |-> paths, components |-> components]
\* a body that is JSON but no object
NotObjectDoc == [k |-> "list", paths |-> <<>>, components |-> {}]
\* a body that is no JSON
NotJsonBody == [k |-> "not_json", paths |-> <<>>, components |-> {}]

CalculatorDoc ==
    Document(<<Route(TRUE, "add", PostMethod("Add two numbers", "", "AddArgs")),
               Route(TRUE, "subtract", PostMethod("", "Subtract b from a", "SubtractArgs")),
               Route(FALSE, "health", NoPostMethod)>>,
             {"AddArgs"})
\* a document with a route under /tools/ that has no POST entry
StatusDoc ==
    Document(<<Route(TRUE, "add", PostMethod("Add two numbers", "", "AddArgs")),
               Route(TRUE, "status", NoPostMethod)>>,
             {"AddArgs"})
InferenceDoc ==
    Document(<<Route(TRUE, "create_chat_completion",
                     PostMethod("Create Chat Completion", "", "ChatCompletionRequest"))>>,
             {"ChatCompletionRequest"})
NoPathsDoc == Document(<<>>, {})

Docs == {CalculatorDoc, StatusDoc, InferenceDoc, NoPathsDoc, NotObjectDoc, NotJsonBody}

\* registration that keeps the entry only of a name it has not seen before
register_fresh_only(reg, name, val) ==
    [n \in DOMAIN reg \cup {name} |->
        IF n # name THEN reg[n] ELSE IF name \in DOMAIN reg THEN NoPostMethod ELSE val]

\* mcp_client.py 35, 51: reg[name] = val
register(reg, name, val) ==
    [n \in DOMAIN reg \cup {name} |-> IF n = name THEN val ELSE reg[n]]

\* mcp_client.py 38-49: the parameter schema, resolved within the document
parameters(post_method, doc) ==
    IF post_method.ref # "" /\ post_method.ref \in doc.components
    THEN [schema |-> post_method.ref]
    ELSE [schema |-> ""]

\* mcp_client.py 51-58
tool_schema(tool_name, post_method, doc) ==
    [type |-> "function",
     name |-> tool_name,
     description |-> IF post_method.summary # "" THEN post_method.summary
                     ELSE IF post_method.description # "" THEN post_method.description
                     ELSE "No description.",
     parameters |-> parameters(post_method, doc)]

\* mcp_client.py 30-58: the loop over the routes, from route i on
RECURSIVE scan_paths(_, _, _, _)
scan_paths(tls, schemas, doc, i) ==
    IF i > Len(doc.paths) THEN [tools |-> tls, tool_schemas |-> schemas]
    ELSE LET route == doc.paths[i]
         IN  IF route.tools_prefix
             THEN scan_paths(register(tls, route.name, route.post),
                             register(schemas, route.name,
                                      tool_schema(route.name, route.post, doc)),
                             doc, i + 1)
             ELSE scan_paths(tls, schemas, doc, i + 1)

\* a loop that allows one attempt more
attempts_left_one_more(n) == n < RETRIES + 1

\* mcp_client.py 22: range(5) is not exhausted after n attempts
attempts_left(n) == n < RETRIES

\* a merge in which the first client that offers a name keeps it
RECURSIVE merge_first_wins(_, _, _, _)
merge_first_wins(unified_map, clients, names_of, i) ==
    IF i > Len(clients) THEN unified_map
    ELSE merge_first_wins(
             [n \in DOMAIN unified_map \cup names_of[clients[i]] |->
                 IF n \in DOMAIN unified_map THEN unified_map[n] ELSE clients[i]],
             clients, names_of, i + 1)

\* tool_executor.py 32-36: the loops over self.tool_clients.values() and
\* client.tools, from client i on: unified_map[tool_name] = client
RECURSIVE merge(_, _, _, _)
merge(unified_map, clients, names_of, i) ==
    IF i > Len(clients) THEN unified_map
    ELSE merge(
             [n \in DOMAIN unified_map \cup names_of[clients[i]] |->
                 IF n \in names_of[clients[i]] THEN clients[i] ELSE unified_map[n]],
             clients, names_of, i + 1)

\* tool_executor.py 27-36: the name -> client map, from client i on
discover_all_tools(unified_map, i) ==
    merge(unified_map, tool_clients, [c \in Clients |-> DOMAIN mcp_tools[c]], i)

\* the process has started and no client is constructed yet
DiscInit ==
    /\ endpoint_doc \in [Clients -> Docs]
    /\ mcp_tools = [c \in Clients |-> <<>>]
    /\ mcp_tool_schemas = [c \in Clients |-> <<>>]
    /\ fetches = [c \in Clients |-> 0]
    /\ runs = [c \in Clients |-> 0]
    /\ replies = [c \in Clients |-> 0]
    /\ last_fetch = [c \in Clients |-> "none"]
    /\ disc_pc = "start"
    /\ current = "none"
    /\ tools_map = <<>>
    /\ disc_exc = "none"

\* the clients not constructed yet, by their position in the order
Unconstructed == {i \in 1..Len(ClientOrder) : runs[ClientOrder[i]] = 0}

\* mcp_client.py 9-15: the constructor up to the call of _discover_tools
\* (both urls start with "http": line 11 never raises)
MCPClient_init(c) ==
    /\ disc_pc = "start"
    /\ Unconstructed # {}
    /\ c = ClientOrder[CHOOSE i \in Unconstructed : \A j \in Unconstructed : i <= j]
    /\ mcp_tools' = [mcp_tools EXCEPT ![c] = <<>>]
    /\ mcp_tool_schemas' = [mcp_tool_schemas EXCEPT ![c] = <<>>]
    /\ runs' = [runs EXCEPT ![c] = 1]
    /\ fetches' = [fetches EXCEPT ![c] = 0]
    /\ current' = c
    /\ disc_pc' = "discover"
    /\ UNCHANGED <<endpoint_doc, replies, last_fetch, tools_map, disc_exc>>
    /\ UNCHANGED <<agent_vars, chat_vars>>
    /\ UNCHANGED proc_vars
    /\ UNCHANGED reg_vars

\* a loop that goes on to the next attempt after its work is done
after_return_next_attempt(c) == "discover"

\* where control is after _discover_tools of client c returned
after_return(c) ==
    IF runs[c] > 1 THEN "ready"
    ELSE IF Unconstructed # {} THEN "start"
    ELSE "registry"

\* mcp_client.py 62-65: the except clause, then the next iteration or the
\* end of the loop
retry_or_give_up(c) ==
    /\ fetches' = [fetches EXCEPT ![c] = @ + 1]
    /\ disc_pc' = IF attempts_left(fetches[c] + 1) THEN "discover" ELSE after_return(c)
    /\ UNCHANGED <<mcp_tools, mcp_tool_schemas, disc_exc>>

\* mcp_client.py 24-25: the GET raises, or the status is an error status
fetch_fails(e) ==
    /\ disc_pc = "discover"
    /\ attempts_left(fetches[current])
    /\ retry_or_give_up(current)
    /\ last_fetch' = [last_fetch EXCEPT ![current] = e]
    /\ UNCHANGED <<endpoint_doc, runs, replies, current, tools_map>>
    /\ UNCHANGED <<agent_vars, chat_vars>>
    /\ UNCHANGED proc_vars
    /\ UNCHANGED reg_vars

\* mcp_client.py 24-61: the GET returns a 2xx response.  A body that is no
\* JSON makes response.json() raise; whether that exception is a
\* RequestException depends on the version of requests
fetch_answers(json_error_is_request_exception) ==
    /\ disc_pc = "discover"
    /\ attempts_left(fetches[current])
    /\ LET c == current
           doc == endpoint_doc[c]
           found == scan_paths(mcp_tools[c], mcp_tool_schemas[c], doc, 1)
       IN  /\ replies' = [replies EXCEPT ![c] = @ + 1]
           /\ CASE doc.k = "not_json" /\ json_error_is_request_exception ->
                     /\ retry_or_give_up(c)
                     /\ last_fetch' = [last_fetch EXCEPT ![c] = "JSONDecodeError"]
                [] doc.k = "not_json" ->
                     /\ fetches' = [fetches EXCEPT ![c] = @ + 1]
                     /\ disc_pc' = "crashed"
                     /\ disc_exc' = "ValueError"
                     /\ last_fetch' = [last_fetch EXCEPT ![c] = "JSONDecodeError"]
                     /\ UNCHANGED <<mcp_tools, mcp_tool_schemas>>
                [] doc.k = "list" ->                      \* no .get on a list
                     /\ fetches' = [fetches EXCEPT ![c] = @ + 1]
                     /\ disc_pc' = "crashed"
                     /\ disc_exc' = "AttributeError"
                     /\ last_fetch' = [last_fetch EXCEPT ![c] = "document"]
                     /\ UNCHANGED <<mcp_tools, mcp_tool_schemas>>
                [] OTHER ->
                     /\ fetches' = [fetches EXCEPT ![c] = @ + 1]
                     /\ mcp_tools' = [mcp_tools EXCEPT ![c] = found.tools]
                     /\ mcp_tool_schemas' =
                            [mcp_tool_schemas EXCEPT ![c] = found.tool_schemas]
                     /\ disc_pc' = after_return(c)
                     /\ last_fetch' = [last_fetch EXCEPT ![c] = "document"]
                     /\ disc_exc' = disc_exc
    /\ UNCHANGED <<endpoint_doc, runs, current, tools_map>>
    /\ UNCHANGED <<agent_vars, chat_vars>>
    /\ UNCHANGED proc_vars
    /\ UNCHANGED reg_vars

\* tool_executor.py 25: self.tools_map = self._discover_all_tools()
ToolExecutor_init ==
    /\ disc_pc = "registry"
    /\ tools_map' = discover_all_tools(<<>>, 1)
    /\ disc_pc' = "ready"
    /\ current' = "none"
    /\ UNCHANGED <<endpoint_doc, mcp_tools, mcp_tool_schemas, fetches, runs,
                   replies, last_fetch, disc_exc>>
    /\ UNCHANGED <<agent_vars, chat_vars>>
    /\ UNCHANGED proc_vars
    /\ UNCHANGED reg_vars

\* mcp_client.py 17: _discover_tools is called on a constructed client
discover_tools(c) ==
    /\ disc_pc = "ready"
    /\ runs[c] < MaxRuns
    /\ runs' = [runs EXCEPT ![c] = @ + 1]
    /\ fetches' = [fetches EXCEPT ![c] = 0]
    /\ current' = c
    /\ disc_pc' = "discover"
    /\ UNCHANGED <<endpoint_doc, mcp_tools, mcp_tool_schemas, replies,
                   last_fetch, tools_map, disc_exc>>
    /\ UNCHANGED <<agent_vars, chat_vars>>
    /\ UNCHANGED proc_vars
    /\ UNCHANGED reg_vars

InitDisc == AgentIdle /\ ChatIdle /\ DiscInit /\ ProcIdle /\ RegIdle

NextDisc ==
    \/ \E c \in Clients : MCPClient_init(c)
    \/ \E e \in {"ConnectionError", "HTTPError"} : fetch_fails(e)
    \/ \E v \in BOOLEAN : fetch_answers(v)
    \/ ToolExecutor_init
    \/ \E c \in Clients : discover_tools(c)

SpecDisc == InitDisc /\ [][NextDisc]_vars

(***************************************************************************)
(* clean-mcp: the client programs (mcp-client.py main, bridge_runner.py    *)
(* run_bridge), the server subprocess and the line-delimited channel       *)
(* between them.                                                           *)
(***************************************************************************)
\* a line of the server's input: a JSON object with id, method and, for
\* tools/call, params.name and params.arguments ("complete": a mapping with
\* the arguments the tool requires, "empty": {}, "not_a_dict": no mapping)
Line(id, method, tool, arguments) ==
    [json |-> "object", id |-> id, method |-> method, tool |-> tool, arguments |-> arguments]
\* a line that is no JSON, a line that is JSON and no object, and the empty
\* string readline returns at end of input
NotJsonLine == [json |-> "not_json", id |-> 0, method |-> "", tool |-> "", arguments |-> ""]
JsonListLine == [json |-> "list", id |-> 0, method |-> "", tool |-> "", arguments |-> ""]
EndOfInput == [json |-> "eof", id |-> 0, method |-> "", tool |-> "", arguments |-> ""]

\* mcp-client.py 54-59, 88-91, 256: the request lines the client writes; the
\* chat loop calls get_time with no arguments
Request(id, method) == Line(id, method, IF method = "tools/call" THEN "get_time" ELSE "", "empty")

\* server.py 62-125: whether the body of handle_request returns a result or
\* raises, in which case the except clause answers with error code -32000
handler_raises(line) ==
    CASE line.method \in {"initialize", "tools/list"} -> FALSE
      [] line.method = "tools/call" ->
           CASE line.arguments = "not_a_dict" -> TRUE    \* arguments.get: AttributeError
             [] line.tool = "get_time" -> FALSE
             [] line.tool = "execute_command" ->
                  line.arguments # "complete"            \* None.lower(): AttributeError
             [] line.tool = "list_files" -> FALSE        \* 154-160 catches its own errors
             [] OTHER -> TRUE                            \* ValueError("Unknown tool")
      [] OTHER -> TRUE                                   \* ValueError("Unknown method")

\* a reply that carries no id
Reply_without_id(line) ==
    [id |-> 0, method |-> line.method,
     kind |-> IF handler_raises(line) THEN "error" ELSE "result",
     code |-> IF handler_raises(line) THEN -32000 ELSE 0]

\* server.py 56-125: the reply of handle_request to a request line
Reply(line) ==
    [id |-> line.id, method |-> line.method,
     kind |-> IF handler_raises(line) THEN "error" ELSE "result",
     code |-> IF handler_raises(line) THEN -32000 ELSE 0]

\* an id that repeats the previous one
get_next_id_repeated(n) == IF n = 0 THEN 1 ELSE n

\* mcp-client.py 32-34
get_next_id(n) == n + 1

\* mcp-client.py 304-305, bridge_runner.py 127-128: the finally clause is
\* entered on every way out of the try block
teardown(path) == "stop"

\* the method send_request is called with at each position
MethodAt(position) ==
    CASE position = "initialize" -> "initialize"
      [] position = "tools_list" -> "tools/list"
      [] OTHER -> "tools/call"

Programs == {"mcp-client", "bridge_runner"}
LlmTypes == {"ollama", "openai", "invalid"}

\* the process has been started from the command line
ProcInit ==
    /\ env \in [program : Programs, llm_type : LlmTypes, backend : BOOLEAN,
                peer : {"exits", "ignores"}]
    /\ run_pc = "boot"
    /\ server_process = "none"
    /\ signaled = FALSE
    /\ awaited = FALSE
    /\ wire = <<>>
    /\ stdin_pipe = <<>>
    /\ stdout_pipe = <<>>
    /\ awaiting = 0
    /\ replies_read = <<>>
    /\ exit_path = "none"

\* bridge_runner.py 13-33: whether the port of the service accepted a
\* connection within the timeout
wait_for_service(reachable) == reachable

\* mcp-client.py 286-296, bridge_runner.py 56-107: up to the creation of the
\* client.  Only bridge_runner looks for the model backend, only for ollama,
\* and goes on when it is not there
configure ==
    /\ run_pc = "boot"
    /\ run_pc' = CASE env.llm_type = "invalid" -> "done"      \* "Invalid LLM type", return
                    [] /\ env.program = "bridge_runner"
                       /\ env.llm_type = "ollama"
                       /\ ~wait_for_service(env.backend) -> "start" \* "continuing anyway..."
                    [] OTHER -> "start"
    /\ UNCHANGED <<env, server_process, signaled, awaited, wire, stdin_pipe, stdout_pipe,
                   awaiting, replies_read, exit_path>>
    /\ UNCHANGED <<agent_vars, chat_vars, disc_vars>>
    /\ UNCHANGED reg_vars

\* the try block is left: the finally clause runs stop_server
leave(path) ==
    /\ run_pc' = teardown(path)
    /\ exit_path' = path
    /\ awaiting' = 0

\* mcp-client.py 36-44: create_subprocess_exec returns the process or raises
start_server(ok) ==
    /\ run_pc = "start"
    /\ IF ok
       THEN /\ server_process' = "running"
            /\ run_pc' = "initialize"
            /\ UNCHANGED <<exit_path, awaiting>>
       ELSE /\ leave("exception")
            /\ UNCHANGED server_process
    /\ UNCHANGED <<env, signaled, awaited, wire, stdin_pipe, stdout_pipe, replies_read>>
    /\ UNCHANGED <<agent_vars, chat_vars, disc_vars>>
    /\ UNCHANGED reg_vars

\* mcp-client.py 52-63: send_request up to the await of readline; writing to
\* a process that has exited raises
send_request ==
    /\ run_pc \in {"initialize", "tools_list", "chat"}
    /\ awaiting = 0
    /\ request_id < MaxRequests
    /\ IF server_process = "running"
       THEN LET id == get_next_id(request_id)
                line == Request(id, MethodAt(run_pc))
            IN  /\ request_id' = id
                /\ wire' = Append(wire, line)
                /\ stdin_pipe' = Append(stdin_pipe, line)
                /\ awaiting' = id
                /\ UNCHANGED <<run_pc, exit_path>>
       ELSE /\ request_id' = get_next_id(request_id)
            /\ leave("exception")
            /\ UNCHANGED <<wire, stdin_pipe>>
    /\ UNCHANGED <<env, server_process, signaled, awaited, stdout_pipe, replies_read>>
    /\ UNCHANGED <<conversation, chat_pc, available_tools, chat_event, chat_turns>>
    /\ UNCHANGED <<agent_vars, disc_vars>>
    /\ UNCHANGED reg_vars

\* server.py 162-180: one iteration of the loop of run: a line is read; at
\* end of input the loop is left; a line that is no JSON is skipped; a JSON
\* value that is no object makes handle_request raise at line 58, which is
\* reported on stderr; a request is handled and answered with one line
server_run ==
    /\ server_process = "running"
    /\ stdin_pipe # <<>>
    /\ stdin_pipe' = Tail(stdin_pipe)
    /\ LET line == Head(stdin_pipe)
       IN  CASE line.json = "eof" ->
                  /\ server_process' = "exited"
                  /\ UNCHANGED stdout_pipe
             [] line.json \in {"not_json", "list"} ->
                  UNCHANGED <<server_process, stdout_pipe>>
             [] OTHER ->
                  /\ stdout_pipe' = Append(stdout_pipe, Reply(line))
                  /\ UNCHANGED server_process
    /\ UNCHANGED <<env, run_pc, signaled, awaited, wire, awaiting,
                   replies_read, exit_path>>
    /\ UNCHANGED <<agent_vars, chat_vars, disc_vars>>
    /\ UNCHANGED reg_vars

\* mcp-client.py 65-66 and the callers of send_request: readline returns a
\* line, or the empty line at end of file, on which json.loads raises
read_reply ==
    /\ awaiting # 0
    /\ run_pc \in {"initialize", "tools_list", "chat"}
    /\ IF stdout_pipe # <<>>
       THEN /\ replies_read' = Append(replies_read,
                                      [awaited_id |-> awaiting, reply |-> Head(stdout_pipe)])
            /\ stdout_pipe' = Tail(stdout_pipe)
            /\ awaiting' = 0
            /\ run_pc' = CASE run_pc = "initialize" -> "tools_list"
                           [] OTHER -> "chat"
            /\ available_tools' = IF run_pc = "tools_list" THEN ServerTools
                                  ELSE available_tools
            /\ UNCHANGED exit_path
       ELSE /\ server_process = "exited"
            /\ leave("exception")
            /\ UNCHANGED <<replies_read, stdout_pipe, available_tools>>
    /\ UNCHANGED <<env, server_process, signaled, awaited, wire, stdin_pipe>>
    /\ UNCHANGED <<conversation, chat_pc, chat_event, chat_turns, request_id>>
    /\ UNCHANGED <<agent_vars, disc_vars>>
    /\ UNCHANGED reg_vars

\* the server process exits by itself
server_exits ==
    /\ server_process = "running"
    /\ run_pc \in {"initialize", "tools_list", "chat"}
    /\ server_process' = "exited"
    /\ UNCHANGED <<env, run_pc, signaled, awaited, wire, stdin_pipe, stdout_pipe, awaiting,
                   replies_read, exit_path>>
    /\ UNCHANGED <<agent_vars, chat_vars, disc_vars>>
    /\ UNCHANGED reg_vars

\* mcp-client.py 230-231: 'quit' ends the chat loop; an exception of the
\* model call or a user interrupt leaves initialize or the chat loop
chat_ends(path) ==
    /\ run_pc \in {"initialize", "tools_list", "chat"}
    /\ path = "normal" => (run_pc = "chat" /\ awaiting = 0)
    /\ leave(path)
    /\ UNCHANGED <<env, server_process, signaled, awaited, wire, stdin_pipe, stdout_pipe,
                   replies_read>>
    /\ UNCHANGED <<agent_vars, chat_vars, disc_vars>>
    /\ UNCHANGED reg_vars

\* mcp-client.py 46-49: stop_server up to the await of wait.  terminate() on
\* a process that has exited is without effect or raises ProcessLookupError,
\* depending on whether the transport has been closed already
stop_server(lookup_error) ==
    /\ run_pc = "stop"
    /\ CASE server_process = "none" ->
              /\ run_pc' = "done"
              /\ UNCHANGED signaled
         [] server_process = "exited" /\ lookup_error ->
              /\ run_pc' = "done"
              /\ UNCHANGED signaled
         [] OTHER ->
              /\ signaled' = TRUE
              /\ run_pc' = "wait"
    /\ UNCHANGED <<env, server_process, awaited, wire, stdin_pipe, stdout_pipe, awaiting,
                   replies_read, exit_path>>
    /\ UNCHANGED <<agent_vars, chat_vars, disc_vars>>
    /\ UNCHANGED reg_vars

\* the server process receives the termination signal and exits
server_terminated ==
    /\ server_process = "running"
    /\ signaled
    /\ env.peer = "exits"
    /\ server_process' = "exited"
    /\ UNCHANGED <<env, run_pc, signaled, awaited, wire, stdin_pipe, stdout_pipe, awaiting,
                   replies_read, exit_path>>
    /\ UNCHANGED <<agent_vars, chat_vars, disc_vars>>
    /\ UNCHANGED reg_vars

\* mcp-client.py 50: await self.server_process.wait() returns
wait_returns ==
    /\ run_pc = "wait"
    /\ server_process = "exited"
    /\ awaited' = TRUE
    /\ run_pc' = "done"
    /\ UNCHANGED <<env, server_process, signaled, wire, stdin_pipe, stdout_pipe, awaiting,
                   replies_read, exit_path>>
    /\ UNCHANGED <<agent_vars, chat_vars, disc_vars>>
    /\ UNCHANGED reg_vars

InitProc == AgentIdle /\ ChatIdle /\ DiscIdle /\ ProcInit /\ RegIdle

NextProc ==
    \/ configure
    \/ \E ok \in BOOLEAN : start_server(ok)
    \/ send_request
    \/ server_run
    \/ read_reply
    \/ server_exits
    \/ \E path \in {"normal", "exception", "interrupt"} : chat_ends(path)
    \/ \E lookup_error \in BOOLEAN : stop_server(lookup_error)
    \/ server_terminated
    \/ wait_returns

SpecProc == InitProc /\ [][NextProc]_vars

(***************************************************************************)
(* clean-mcp/server.py on its own: the server reads an input of up to      *)
(* MaxLines lines, followed by the end of input.                           *)
(***************************************************************************)
SrvLines ==
    {Line(id, method, "", "empty") :
        id \in {1, 2}, method \in {"initialize", "tools/list", "ping"}}
    \cup {Line(3, "tools/call", "get_time", "empty"),
          Line(3, "tools/call", "execute_command", "complete"),
          Line(3, "tools/call", "execute_command", "empty"),
          Line(3, "tools/call", "execute_command", "not_a_dict"),
          Line(3, "tools/call", "list_files", "empty"),
          Line(3, "tools/call", "no_such_tool", "empty")}
    \cup {NotJsonLine, JsonListLine}

SrvInputs == UNION {[1..n -> SrvLines] : n \in 0..MaxLines}

\* the server has been started with its input written to its stdin (wire)
\* and the write end closed
SrvInit ==
    /\ env = <<>>
    /\ run_pc = "idle"
    /\ server_process = "running"
    /\ signaled = FALSE
    /\ awaited = FALSE
    /\ wire \in SrvInputs
    /\ stdin_pipe = Append(wire, EndOfInput)
    /\ stdout_pipe = <<>>
    /\ awaiting = 0
    /\ replies_read = <<>>
    /\ exit_path = "none"

InitSrv == AgentIdle /\ ChatIdle /\ DiscIdle /\ RegIdle /\ SrvInit

NextSrv == server_run

SpecSrv == InitSrv /\ [][NextSrv]_vars

(***************************************************************************)
(* tool_executor.py: the registry of an executor with several tool         *)
(* clients, some of which offer a tool of the same name.                   *)
(***************************************************************************)
RegClients == {"calculator_client", "file_indexer_client", "search_client"}
RegNames == {"add", "subtract"}

\* the orders in which up to MaxClients distinct clients are registered
RegOrders ==
    {o \in UNION {[1..n -> RegClients] : n \in 1..MaxClients} :
        \A i, j \in 1..Len(o) : i # j => o[i] # o[j]}

\* tool_executor.py 18-22: self.tool_clients has been filled and every
\* client has discovered its tools
RegInit ==
    /\ registry \in RegOrders
    /\ offers \in [RegClients -> SUBSET RegNames]
    /\ unified = <<>>
    /\ lookup = NoLookup
    /\ llm_tools = NoList

\* the tool_schemas of a client that discovered the tools `names`, in the
\* order of the routes of its schema document, each by its name
RouteOrder == <<"add", "subtract">>
tool_schemas_values(names) == SelectSeq(RouteOrder, LAMBDA n : n \in names)

\* tool_executor.py 43-47: the loop over self.tool_clients.values(), from
\* client i on: llm_tools.extend(client.tool_schemas.values())
RECURSIVE get_tools_for_llm(_, _, _, _)
get_tools_for_llm(llm_tools_so_far, clients, names_of, i) ==
    IF i > Len(clients) THEN llm_tools_so_far
    ELSE get_tools_for_llm(llm_tools_so_far \o tool_schemas_values(names_of[clients[i]]),
                           clients, names_of, i + 1)

\* tool_executor.py 25: self.tools_map = self._discover_all_tools()
ToolExecutor_discover_all_tools ==
    /\ lookup = NoLookup
    /\ unified = <<>>
    /\ unified' = merge(<<>>, registry, offers, 1)
    /\ lookup' = [name |-> "", client |-> "built"]
    /\ UNCHANGED <<registry, offers, llm_tools>>
    /\ UNCHANGED <<agent_vars, chat_vars, disc_vars>>
    /\ UNCHANGED proc_vars

\* tool_executor.py 53, 58: client = self.tools_map.get(tool_name)
execute_tool(tool_name) ==
    /\ lookup.client # "none"
    /\ lookup' = [name |-> tool_name,
                  client |-> IF tool_name \in DOMAIN unified THEN unified[tool_name]
                             ELSE "not found"]
    /\ UNCHANGED <<registry, offers, unified, llm_tools>>
    /\ UNCHANGED <<agent_vars, chat_vars, disc_vars>>
    /\ UNCHANGED proc_vars

\* tool_executor.py 38-47: get_tools_for_llm is called on the executor
ToolExecutor_get_tools_for_llm ==
    /\ lookup.client # "none"
    /\ ~llm_tools.built
    /\ llm_tools' = [built |-> TRUE, names |-> get_tools_for_llm(<<>>, registry, offers, 1)]
    /\ UNCHANGED <<registry, offers, unified, lookup>>
    /\ UNCHANGED <<agent_vars, chat_vars, disc_vars>>
    /\ UNCHANGED proc_vars

InitReg == AgentIdle /\ ChatIdle /\ DiscIdle /\ ProcIdle /\ RegInit

NextReg ==
    \/ ToolExecutor_discover_all_tools
    \/ \E tool_name \in RegNames : execute_tool(tool_name)
    \/ ToolExecutor_get_tools_for_llm

SpecReg == InitReg /\ [][NextReg]_vars

(***************************************************************************)
(* Properties of the agent (Spec).                                         *)
(***************************************************************************)
\* the tool call the tools node works on
FirstCall == Last(state).tool_calls[1]
\* the call answered by the tool-result that ends the history
AnsweredCall == state[Len(state) - 1].tool_calls[1]
EndsWithToolResult == Len(state) >= 2 /\ Last(state).type = "tool"

Paired(h, i) ==
    h[i].type = "tool" =>
        /\ i > 1
        /\ h[i - 1].type = "ai"
        /\ \E j \in 1..Len(h[i - 1].tool_calls) :
               h[i - 1].tool_calls[j].id = h[i].tool_call_id

\* C1: in every reachable history each tool-result message is immediately
\* preceded by an assistant message carrying a tool call with the same id.
C1_Pairing ==
    /\ \A i \in 1..Len(state) : Paired(state, i)
    /\ \A i \in 1..Len(messages) : Paired(messages, i)

C1_Witness ==
    /\ pc = "input"
    /\ Len(messages) >= 4
    /\ messages[3].type = "tool"
    /\ messages[3].tool_call_id = ModelId(1)

\* C2: every tool name POSTed to the tool endpoint was in a tool spec list
\* attached to a model request of the conversation.
C2_OnlyOfferedToolsDispatched == posted \subseteq offered

\* C4: when the requested tool is absent from the registry, the tool-result is
\* exactly "Error: Tool '<name>' not found." and no request was sent.
C4_AbsentToolNotFoundText ==
    (EndsWithToolResult /\ AnsweredCall.name \notin calculator_tools) =>
        /\ Last(state).content = NotFoundText(AnsweredCall.name)
        /\ ~post.sent

\* the parameters the offered spec of tool `name` declares as numbers
NumericParams(name) ==
    UNION {tools[i].properties : i \in {j \in 1..Len(tools) : tools[j].name = name}}

\* a call of a found tool with a mapping of arguments in which a declared
\* numeric parameter is present and is no number
NotANumber(v) == v.t = "null" \/ (v.t = "str" /\ v.s \notin DOMAIN NumericStrings)
HasBadNumber(tc) ==
    /\ tc.name \in calculator_tools
    /\ tc.args.shape = "dict"
    /\ \E p \in NumericParams(tc.name) : NotANumber(tc.args[p])

C6_ValidationNeverCrashes ==
    [][(pc = "tools" /\ FirstCall.id # NoId) =>
           (pc' # "crashed" /\ Last(state').type = "tool")]_vars

\* C7: when the request to the model endpoint fails, exactly one assistant
\* message with the error text and no tool call is appended, the turn ends
\* (no tool is executed), and the loop goes on to read the next input.
C7_ModelFailureIsAnswered ==
    /\ [][(pc = "llm" /\ response'.k = "str") =>
              /\ state' = Append(state, AIMessage(ErrorText, <<>>))
              /\ pc' = "end"
              /\ post' = post /\ posted' = posted]_vars
    /\ [][(pc = "end" /\ response.k = "str") =>
              (pc' = "input" /\ messages' = state)]_vars

C7_Witness ==
    /\ request.sent
    /\ Len(messages) = 3
    /\ messages[2] = AIMessage(ErrorText, <<>>)
    /\ messages[3].type = "human"
    /\ pc = "llm"

\* C8: a malformed reply to a model request never escapes the llm node as an
\* exception: the node recovers into a visible error message.
C8_MalformedReplyRecovered ==
    response.k \in {"not_a_dict", "no_message", "empty_choices"} =>
        /\ pc # "crashed"
        /\ Last(state) = AIMessage(ErrorText, <<>>)

\* C9: the model request carries the tool specs and tool_choice exactly when
\* the last message of the history it was built from is no tool-result.
C9_ToolsAttachedByLastRole ==
    LET n == Len(request.kwargs.messages)
    IN  n > 0 =>
          IF state[n].type = "tool"
          THEN request.kwargs.tools = <<>> /\ request.kwargs.tool_choice = "absent"
          ELSE request.kwargs.tools = tools /\ request.kwargs.tool_choice = "auto"

C9_Witness ==
    LET n == Len(request.kwargs.messages)
    IN  /\ request.sent
        /\ n = 5
        /\ state[3].type = "tool"
        /\ state[n].type = "human"
        /\ request.kwargs.tools = tools

\* C10: when the response declares a structured tool call, the assistant
\* message appended carries that call and no call is parsed out of the
\* content, also when the content is itself a JSON tool call.
C10_StructuredHasPriority ==
    [][(pc = "llm" /\ response'.k = "ok" /\ response'.tool_calls # <<>>
          /\ Len(state') = Len(state) + 1) =>
           /\ Last(state') = AIMessage(Empty, response'.tool_calls)
           /\ uuid_n' = uuid_n
           /\ pc' = "tools"]_vars

C10_Witness ==
    /\ pc = "tools"
    /\ response.k = "ok"
    /\ response.content = EmbeddedContent
    /\ response.tool_calls = <<ToolCall("add", GoodArgs, ModelId(1))>>
    /\ Last(state).tool_calls = response.tool_calls

\* the content of the reply, cut at the first ';', is the text of a JSON
\* object with a name and a parameters key
FirstSegmentIsCall(c) ==
    c.k = "json" /\ c.obj /\ c.has_name /\ c.pk \in {"value", "str"}

\* C11: when the reply has no structured call and its content, cut at the
\* first ';', is a JSON object with a name and a parameters key, the message
\* appended carries a tool call with that name and those arguments, whatever
\* follows the ';'.
C11_FirstSegmentDetected ==
    [][(pc = "llm" /\ response'.k = "ok" /\ response'.tool_calls = <<>>
          /\ FirstSegmentIsCall(response'.content)
          /\ Len(state') = Len(state) + 1) =>
           /\ Len(Last(state').tool_calls) = 1
           /\ Last(state').tool_calls[1].name = response'.content.name
           /\ Last(state').tool_calls[1].args = response'.content.args]_vars

\* the contents on which embedded detection fails: a text that is no JSON
\* document, a JSON value that is no object with both keys, and a parameters
\* string that is no JSON
EmbeddedFails(c) ==
    \/ c.k = "text"
    \/ c.k = "json" /\ c.tail # ""
    \/ c.k = "json" /\ ~(c.obj /\ c.has_name /\ c.pk # "absent")
    \/ c.k = "json" /\ c.pk = "badstr"

\* C12: when embedded detection fails on the content of a reply without
\* structured calls, the assistant message is appended with the original
\* content and no tool call, the turn ends, no exception escapes, and the
\* history is handed back to the user loop.
C12_DetectionFailureSwallowed ==
    /\ [][(pc = "llm" /\ response'.k = "ok" /\ response'.tool_calls = <<>>
             /\ EmbeddedFails(response'.content)) =>
              /\ state' = Append(state, AIMessage(response'.content, <<>>))
              /\ pc' = "end"
              /\ exc' = NoExc
              /\ uuid_n' = uuid_n]_vars
    /\ [][(pc = "end" /\ response.k = "ok" /\ EmbeddedFails(response.content)) =>
              (pc' = "input" /\ messages' = state)]_vars

C12_Witness ==
    /\ pc = "input"
    /\ Len(messages) = 2
    /\ response.k = "ok"
    /\ response.content = JsonCall("subtract", "badstr", ListArgs, "")
    /\ messages[2] = AIMessage(response.content, <<>>)

\* C13: every tool call recorded in the history, structured or embedded,
\* carries an id.
C13_EveryCallHasId ==
    \A i \in 1..Len(state) :
        \A j \in 1..Len(state[i].tool_calls) : state[i].tool_calls[j].id # NoId

\* the positions of the assistant messages of h that carry a call with id
CallersOf(h, id) ==
    {i \in 1..Len(h) :
        h[i].type = "ai" /\ \E j \in 1..Len(h[i].tool_calls) : h[i].tool_calls[j].id = id}

\* C14: for every tool-result message of the history exactly one assistant
\* message carries a tool call with its id, and that message precedes it.
C14_OneCallerPerResult ==
    \A i \in 1..Len(state) :
        state[i].type = "tool" =>
            /\ Cardinality(CallersOf(state, state[i].tool_call_id)) = 1
            /\ \A k \in CallersOf(state, state[i].tool_call_id) : k < i

\* C15: a step of the tools node on an assistant message with one or more
\* tool calls POSTs at most the first call, and when it hands over to the next
\* model turn it has appended exactly one message, the tool-result of the
\* first call.
C15_OneCallPerTurn ==
    [][(pc = "tools" /\ Last(state).type = "ai" /\ Len(Last(state).tool_calls) >= 1) =>
           /\ post'.sent => post'.name = FirstCall.name
           /\ posted' \subseteq posted \cup {FirstCall.name}
           /\ pc' \in {"llm", "crashed"}
           /\ pc' = "crashed" => state' = state
           /\ pc' = "llm" =>
                 /\ Len(state') = Len(state) + 1
                 /\ SubSeq(state', 1, Len(state)) = state
                 /\ Last(state').type = "tool"
                 /\ Last(state').tool_call_id = FirstCall.id]_vars

C15_Witness ==
    /\ pc = "llm"
    /\ EndsWithToolResult
    /\ Len(state[Len(state) - 1].tool_calls) = 2
    /\ Last(state).tool_call_id = ModelId(1)
    /\ post.sent /\ post.name = "add"

\* C16: a step of the tools node that does not crash leads to the model
\* turn; the request of that turn is sent and carries the whole history,
\* ending with the tool-result just appended; when the model then answers
\* with plain text the turn ends and the history returned to the user loop
\* ends with the assistant message carrying that text.
C16_FeedbackLoop ==
    /\ [][(pc = "tools" /\ pc' # "crashed") =>
              (pc' = "llm" /\ Last(state').type = "tool")]_vars
    /\ [][(pc = "llm" /\ Last(state).type = "tool") =>
              /\ request'.sent
              /\ request'.kwargs.messages =
                     [i \in 1..Len(state) |-> map_message_to_api(state[i])]
              /\ Last(request'.kwargs.messages) =
                     [role |-> "tool", content |-> Last(state).content,
                      tool_call_id |-> Last(state).tool_call_id]]_vars
    /\ [][(pc = "llm" /\ Last(state).type = "tool" /\ response'.k = "ok"
             /\ response'.tool_calls = <<>> /\ response'.content.k = "text") =>
              /\ state' = Append(state, AIMessage(response'.content, <<>>))
              /\ pc' = "end"]_vars
    /\ [][(pc = "end" /\ Last(state).type = "ai") =>
              (pc' = "input" /\ messages' = state)]_vars

C16_Witness ==
    /\ pc = "input"
    /\ Len(messages) = 4
    /\ messages[3] = ToolMessage(ValueText("add", 3), ModelId(1))
    /\ messages[4] = AIMessage(Text("The answer is 3."), <<>>)
    /\ Len(request.kwargs.messages) = 3
    /\ request.kwargs.messages[3].role = "tool"

\* the cause carried by the error text for a POST that failed
Cause(net) == IF net.k = "ConnectionError" THEN "ConnectionError" ELSE "HTTPError"

\* C20: when the POST of a tool call fails on the network or is answered with
\* a status other than 2xx, the tools node appends a tool-result whose content
\* is the error text carrying the cause, and hands over to the model turn
\* (for a call that carries an id).
C20_HttpFailureIsErrorValue ==
    [][(pc = "tools" /\ FirstCall.id # NoId /\ post'.sent
          /\ ~(post'.net.k = "status" /\ post'.net.status \in 200..299)) =>
           /\ pc' = "llm"
           /\ state' = Append(state, ToolMessage(CallErrorText(post'.name, Cause(post'.net)),
                                                 FirstCall.id))]_vars

\* the parameters among a, b whose argument float() does not accept
Offending(tc) == {p \in {"a", "b"} : ~float(dict_get(tc.args, p)).ok}

\* C28: the error tool-result for a coercion failure names the tool and the
\* offending parameter: when exactly one of a, b is not coercible, the text
\* of the tool-result names the tool of the call and that parameter.
C28_ErrorNamesParameter ==
    (/\ EndsWithToolResult
     /\ Last(state).content.k = "invalid_parameters"
     /\ Cardinality(Offending(AnsweredCall)) = 1) =>
        /\ Last(state).content.tool = AnsweredCall.name
        /\ Offending(AnsweredCall) \subseteq Last(state).content.params

\* the argument keys of call tc that the offered spec of its tool does not
\* declare
Undeclared(tc) ==
    {key \in {"a", "b", "c"} : key \notin NumericParams(tc.name) /\ tc.args[key] # Absent}

\* C29: undeclared parameters are passed through unchanged: whenever the
\* tools node sends a request to the tool endpoint, every argument of the
\* call that the tool's schema does not declare is in the payload sent, with
\* the same value.
C29_UndeclaredPassedThrough ==
    [][(pc = "tools" /\ post'.sent) =>
           \A key \in Undeclared(FirstCall) : post'.payload[key] = FirstCall.args[key]]_vars

\* the parameters the offered spec of tool `name` requires
RequiredParams(name) ==
    UNION {tools[i].required : i \in {j \in 1..Len(tools) : tools[j].name = name}}
\* the required parameters for which call tc has no argument
Omitted(tc) == {p \in RequiredParams(tc.name) : tc.args[p] = Absent}

\* C33: add and subtract are dispatched only with both required parameters:
\* a call (with an id and a mapping of arguments) that omits a or b is
\* answered with an error tool-result and no request is sent to the tool
\* endpoint.
C33_RequiredParamsOrNoDispatch ==
    [][(/\ pc = "tools"
        /\ FirstCall.name \in {"add", "subtract"}
        /\ FirstCall.id # NoId
        /\ FirstCall.args.shape = "dict"
        /\ Omitted(FirstCall) # {}) =>
           /\ ~post'.sent
           /\ posted' = posted
           /\ Last(state').type = "tool"
           /\ Last(state').content.k \notin {"value", "body"}]_vars

\* C34: discovery is never re-run after construction: the tools of the
\* clients stay as construction left them, and when discovery of the model
\* endpoint found nothing, every model turn sends no request to the model
\* endpoint and ends the turn with the synthetic error assistant message,
\* whatever the endpoint would answer by now.
C34_NoRediscovery ==
    /\ [][inference_tools' = inference_tools /\ calculator_tools' = calculator_tools]_vars
    /\ [][(pc = "llm" /\ inference_tools = {}) =>
              /\ ~request'.sent
              /\ offered' = offered
              /\ state' = Append(state, AIMessage(ErrorText, <<>>))
              /\ pc' = "end"]_vars
C34_Witness ==
    /\ inference_tools = {}
    /\ pc = "input"
    /\ Len(messages) = 4
    /\ messages[2] = AIMessage(ErrorText, <<>>)
    /\ messages[4] = AIMessage(ErrorText, <<>>)
    /\ ~request.sent
    /\ offered = {}

(***************************************************************************)
(* Properties of discovery (SpecDisc).                                     *)
(***************************************************************************)
\* _discover_tools is running on client c
Discovering(c) == disc_pc = "discover" /\ current = c

\* C17: while every fetch of the construction-time discovery of a client has
\* failed (the GET raised or returned an error status), its tools and
\* tool_schemas are empty, no exception has escaped, the run goes on as long
\* as fewer than 5 attempts were made and has returned once 5 were made.
C17_FiveAttemptsThenEmpty ==
    \A c \in Clients :
        (runs[c] = 1 /\ replies[c] = 0) =>
            /\ mcp_tools[c] = <<>>
            /\ mcp_tool_schemas[c] = <<>>
            /\ ~(disc_pc = "crashed" /\ current = c)
            /\ fetches[c] <= 5
            /\ Discovering(c) <=> fetches[c] < 5

C17_Witness ==
    /\ disc_pc = "ready"
    /\ runs["calculator_client"] = 1
    /\ replies["calculator_client"] = 0
    /\ fetches["calculator_client"] = 5
    /\ last_fetch["calculator_client"] = "HTTPError"
    /\ mcp_tools["calculator_client"] = <<>>
    /\ tools_map = <<>>

\* the tools of an endpoint: the names of its routes under /tools/ that
\* support POST
EndpointTools(doc) ==
    {doc.paths[i].name :
        i \in {j \in 1..Len(doc.paths) :
                 doc.paths[j].tools_prefix /\ doc.paths[j].post.declared}}

\* the tool clients whose endpoint answered the construction-time discovery
AnsweredToolClients ==
    {tool_clients[i] : i \in {j \in 1..Len(tool_clients) : replies[tool_clients[j]] > 0}}

\* C18: whatever endpoints fail, construction of the clients and of the
\* registry completes, and the registry then holds exactly the tools of the
\* tool endpoints that answered.
C18_FailuresAreIsolated ==
    /\ disc_pc # "crashed"
    /\ (disc_pc = "ready" /\ \A c \in Clients : runs[c] = 1) =>
           DOMAIN tools_map = UNION {EndpointTools(endpoint_doc[c]) : c \in AnsweredToolClients}

\* C19: a run of _discover_tools on a client that has already read the
\* schema document of its endpoint leaves tools and tool_schemas as they
\* were (the document of an endpoint does not change).
C19_DiscoveryIdempotent ==
    [][\A c \in Clients :
          (Discovering(c) /\ runs[c] >= 2 /\ replies[c] > 0
             /\ endpoint_doc[c].k = "object") =>
              /\ mcp_tools'[c] = mcp_tools[c]
              /\ mcp_tool_schemas'[c] = mcp_tool_schemas[c]]_vars

C19_Witness ==
    /\ disc_pc = "ready"
    /\ endpoint_doc["calculator_client"] = CalculatorDoc
    /\ runs["calculator_client"] = 2
    /\ replies["calculator_client"] = 2
    /\ DOMAIN mcp_tools["calculator_client"] = {"add", "subtract"}
    /\ mcp_tool_schemas["calculator_client"]["subtract"].description = "Subtract b from a"

\* C21: the tools a client has registered from the schema document of its
\* endpoint are exactly the routes under /tools/ that support POST, each under
\* the last segment of its path.
C21_OnlyPostRoutesRegistered ==
    \A c \in Clients :
        (replies[c] > 0 /\ endpoint_doc[c].k = "object") =>
            /\ DOMAIN mcp_tools[c] = EndpointTools(endpoint_doc[c])
            /\ DOMAIN mcp_tool_schemas[c] = EndpointTools(endpoint_doc[c])

\* the names of the routes under /tools/ of a schema document
ToolRoutes(doc) ==
    {doc.paths[i].name : i \in {j \in 1..Len(doc.paths) : doc.paths[j].tools_prefix}}

\* C32: the construction-time discovery stops at the first success: while
\* its attempts fail the tool set is empty; the first fetch that returns a
\* schema document is attempt k <= 5 after k - 1 failed ones, it ends the
\* run with the tool set of that document, and no fetch follows it.
C32_StopsAtFirstSuccess ==
    /\ [][\A c \in Clients :
              (/\ runs[c] = 1 /\ replies[c] = 0 /\ replies'[c] = 1
               /\ endpoint_doc[c].k = "object") =>
                  /\ mcp_tools[c] = <<>>
                  /\ fetches'[c] = fetches[c] + 1
                  /\ fetches'[c] <= RETRIES
                  /\ disc_pc' # "discover"
                  /\ DOMAIN mcp_tools'[c] = ToolRoutes(endpoint_doc[c])
                  /\ DOMAIN mcp_tool_schemas'[c] = ToolRoutes(endpoint_doc[c])]_vars
    /\ [][\A c \in Clients :
              (/\ runs[c] = 1 /\ runs'[c] = 1 /\ replies[c] >= 1
               /\ endpoint_doc[c].k = "object") =>
                  /\ fetches'[c] = fetches[c]
                  /\ replies'[c] = replies[c]
                  /\ mcp_tools'[c] = mcp_tools[c]]_vars
C32_Witness ==
    /\ runs["calculator_client"] = 1
    /\ endpoint_doc["calculator_client"] = CalculatorDoc
    /\ fetches["calculator_client"] = 3
    /\ replies["calculator_client"] = 1
    /\ DOMAIN mcp_tools["calculator_client"] = {"add", "subtract"}
    /\ disc_pc = "ready"

(***************************************************************************)
(* Properties of the chat loop (SpecChat).                                 *)
(***************************************************************************)
\* C3: apart from truncation, every operation on a conversation leaves the
\* existing messages unchanged in content and position and only appends.
C3_AppendOnly ==
    [][/\ IsPrefix(messages, messages')
       /\ chat_event'.truncated \/ IsPrefix(conversation, conversation')]_vars

\* C22: a history of more than 20 messages is cut to exactly 10 messages,
\* the 10 most recent ones in their order, the cut history does not start
\* with a tool-result, and no history of more than 20 messages is left uncut
\* when the user is prompted again.
C22_TruncationSafety ==
    /\ [][chat_event'.truncated =>
              /\ Len(conversation) + 1 > 20
              /\ Len(conversation') = 10
              /\ \A i \in 1..9 : conversation'[i] = conversation[Len(conversation) - 9 + i]
              /\ conversation'[10].role = "assistant"
              /\ conversation'[1].role # "tool"]_vars
    /\ [](chat_pc = "prompt" => Len(conversation) <= 20)

C22_Witness ==
    /\ chat_pc = "prompt"
    /\ chat_event.truncated
    /\ Len(conversation) = 10
    /\ conversation[1].role = "user"
    /\ available_tools # {}

(***************************************************************************)
(* Properties of the agent in a long conversation (SpecLong).              *)
(***************************************************************************)
\* C23: when a user turn of the agent ends with a history of more than 20
\* messages, the history handed back to the user loop is cut to its 10 most
\* recent messages, so that no model request of a new turn is built from more
\* than 21 messages.
C23_AgentHistoryIsCut ==
    /\ [][(pc = "end" /\ Len(state) > 20) =>
              (Len(messages') = 10 /\ messages' = SubSeq(state, Len(state) - 9, Len(state)))]_vars
    /\ []((pc = "llm" /\ Last(state).type = "human") => Len(state) <= 21)


(***************************************************************************)
(* Properties of the client programs and the server subprocess (SpecProc). *)
(***************************************************************************)
\* C24: at most one request is in flight on the channel: a request is
\* written only when every request written before has had its reply line
\* read, the ids on the wire are strictly increasing, and every reply read is
\* the reply to the most recently written request.
C24_OneRequestInFlight ==
    /\ [](Len(stdin_pipe) + Len(stdout_pipe) <= 1)
    /\ [](\A i, j \in 1..Len(wire) : i < j => wire[i].id < wire[j].id)
    /\ [][wire' # wire => Len(replies_read) = Len(wire)]_vars
    /\ [][replies_read' # replies_read =>
              /\ Last(replies_read').reply = Reply(Last(wire))
              /\ Last(replies_read').awaited_id = Last(wire).id]_vars
C24_Witness ==
    /\ Len(wire) = 3
    /\ Len(replies_read) = 3
    /\ replies_read[3].reply.method = "tools/call"

\* C25: stopping the subprocess always completes: whenever stop_server has
\* sent the termination signal and waits, the wait can still end, by the exit
\* of the peer or by a bound on the wait, even when the peer never exits in
\* response to the signal.
C25_StopAlwaysCompletes ==
    run_pc = "wait" => ENABLED (wait_returns \/ server_terminated)

\* C26: every subprocess that was started is signaled and awaited on
\* teardown, on every exit path: whichever way the try block was left, the
\* program is in stop_server or past it, and when the program has finished
\* every subprocess it started has been sent the termination signal and
\* has been waited for.
C26_TeardownOnEveryPath ==
    /\ exit_path # "none" => run_pc \in {"stop", "wait", "done"}
    /\ (run_pc = "done" /\ server_process # "none") => (signaled /\ awaited)

\* C30: when no usable model backend is available at startup, startup
\* aborts: the program never starts the tool-server subprocess, never sends
\* it a request and never enters the conversation loop.
C30_NoBackendAbortsStartup ==
    ~env.backend =>
        /\ server_process = "none"
        /\ wire = <<>>
        /\ run_pc # "chat"

\* the positions of the system messages of a history
SystemAt(conv) == {i \in 1..Len(conv) : conv[i].role = "system"}

\* C37: in every model request of the chat loop the history holds at most
\* one system message, and (when the server listed tools) the tool-list
\* preamble occurs exactly once in it, however many user turns were processed.
C37_OnePreamble ==
    chat_pc = "llm" =>
        /\ Cardinality(SystemAt(conversation)) <= 1
        /\ available_tools # {} =>
               /\ Cardinality(SystemAt(conversation)) = 1
               /\ \A i \in SystemAt(conversation) : conversation[i].content.preambles = 1

\* C38: in the chat loop a tools/call request is sent only in the reply step
\* of a turn whose model reply mentioned the tool's name and in which the
\* user answered y to the confirmation prompt; the quit and tools commands
\* send no request and leave the conversation unchanged.
C38_ToolCallNeedsConsent ==
    /\ [][/\ request_id' - request_id = Cardinality(chat_event'.rpc)
          /\ chat_event'.rpc # {} =>
                 /\ chat_pc = "llm"
                 /\ chat_event'.step = "reply"
                 /\ chat_event'.rpc \subseteq chat_event'.mentions
                 /\ chat_event'.answer = "y"]_<<request_id, chat_event>>
    /\ [][(chat_pc = "prompt" /\ chat_event'.step \in {"quit", "tools"}) =>
              /\ conversation' = conversation
              /\ request_id' = request_id
              /\ chat_event'.rpc = {}]_vars
C38_Witness ==
    /\ chat_pc = "prompt"
    /\ chat_event.rpc = {"get_time"}
    /\ chat_event.answer = "y"
    /\ request_id = 4
    /\ Last(conversation).role = "assistant"

(***************************************************************************)
(* Properties of the server on its own (SpecSrv).                          *)
(***************************************************************************)
\* the lines of the input the server has read so far, and the requests
\* (JSON objects) among them
Consumed ==
    IF stdin_pipe = <<>> THEN wire
    ELSE SubSeq(wire, 1, Len(wire) + 1 - Len(stdin_pipe))
ConsumedRequests == SelectSeq(Consumed, LAMBDA l : l.json = "object")

\* a reply line with the id of the request
ResultFor(line) == [id |-> line.id, method |-> line.method, kind |-> "result", code |-> 0]
ErrorFor(line) == [id |-> line.id, method |-> line.method, kind |-> "error", code |-> -32000]

\* a result for initialize, tools/list and a known tool, an error object for
\* an unknown method or an unknown tool
ReplyByName(line) ==
    IF \/ line.method \in {"initialize", "tools/list"}
       \/ (line.method = "tools/call" /\ line.tool \in ServerTools)
    THEN ResultFor(line) ELSE ErrorFor(line)

\* as ReplyByName, but a result for a known tool only when its arguments are
\* a mapping and, for execute_command, hold the command
ReplyByNameAndArguments(line) ==
    IF \/ line.method \in {"initialize", "tools/list"}
       \/ /\ line.method = "tools/call"
          /\ line.tool \in ServerTools
          /\ line.arguments # "not_a_dict"
          /\ (line.tool = "execute_command" => line.arguments = "complete")
    THEN ResultFor(line) ELSE ErrorFor(line)

Offering(n) == {i \in 1..Len(registry) : n \in offers[registry[i]]}
LastOffering(n) == registry[CHOOSE i \in Offering(n) : \A j \in Offering(n) : j <= i]

\* C27: merging is last-registration-wins per name: once the map is built,
\* it holds exactly the names offered by some registered client, each name
\* maps to the client registered last among those that offer it, and
\* resolving a name yields that client, for every registration order.
C27_LastRegistrationWins ==
    lookup.client # "none" =>
        /\ DOMAIN unified = {n \in RegNames : Offering(n) # {}}
        /\ \A n \in DOMAIN unified : unified[n] = LastOffering(n)
        /\ (lookup.name # "" /\ Offering(lookup.name) # {}) =>
               lookup.client = LastOffering(lookup.name)
C27_Witness ==
    /\ Len(registry) = 3
    /\ \A c \in RegClients : "add" \in offers[c]
    /\ registry[1] = "search_client"
    /\ lookup = [name |-> "add", client |-> registry[3]]

C31_TurnEndsOnlyInAnswered ==
    [][(pc \in {"llm", "tools"} /\ pc' \notin {"llm", "tools"}) =>
           /\ pc' = "end"
           /\ Last(state').type = "ai"
           /\ Last(state').tool_calls = <<>>]_vars

====
